---------------------------- MODULE Spec2Model ----------------------------
(***************************************************************************)
(* A model of the BITS packet decoder of 2021/day16 (src/main.rs):         *)
(* BitReader (read_bits, read_compressed_literal), part1 (read_packet:     *)
(* the version sum) and part2 (evaluate: the expression value).            *)
(*                                                                         *)
(* The recursion of read_packet / evaluate is an explicit stack of frames, *)
(* one frame per active call, each with the position it has reached in the *)
(* function body (pc) and the function's locals.  Every call of read_bits  *)
(* or read_compressed_literal is one step.                                 *)
(***************************************************************************)
EXTENDS Integers, Sequences, FiniteSets, TLC

VARIABLES
    data,        \* BitReader.data: the byte buffer, a sequence of 0..255
    position,    \* BitReader.position: the current bit index
    entry,       \* which caller drives the reader: "idle", "reader", "part1", "part2"
    stack,       \* the active read_packet / evaluate calls, innermost last
    eval_stack,  \* part2's eval_stack
    ret,         \* the value the call that returned last handed to its caller
    input,       \* history: how Init built the buffer
    last_read,   \* history: the last read_bits call, its arguments and its outcome
    last_call,   \* history: the frame of the call that returned last
    versions,    \* history: the version fields read so far, in order
    reads        \* history: the read_bits requests of part1 / part2 so far, in order

vars == <<data, position, entry, stack, eval_stack, ret, input, last_read, last_call,
          versions, reads>>

---------------------------------------------------------------------------
(* Machine arithmetic.                                                      *)

U16Bits == 16
USizeNibbles == 16

Pow2(n) == 2 ^ n

RECURSIVE BitAnd(_, _)
BitAnd(a, b) ==
    IF a = 0 \/ b = 0 THEN 0
    ELSE (a % 2) * (b % 2) + 2 * BitAnd(a \div 2, b \div 2)

RECURSIVE BitOr(_, _)
BitOr(a, b) ==
    IF a = 0 THEN b
    ELSE IF b = 0 THEN a
    ELSE (IF a % 2 = 1 \/ b % 2 = 1 THEN 1 ELSE 0) + 2 * BitOr(a \div 2, b \div 2)

Shr(a, k) == a \div Pow2(k)

\* The result kept in a u8.
Shl8(a, k) == (a * Pow2(k)) % 256

\* result <<= chunk_width on a u16: the bits shifted out are lost.
Shl16(a, k) == (a * Pow2(k)) % Pow2(U16Bits)

Min2(a, b) == IF a < b THEN a ELSE b

---------------------------------------------------------------------------
(* Results: Ok(v), Err(e), and a panic (the thread unwinds: no Result).     *)

NoResult == [kind |-> "none", val |-> 0, err |-> "none", arg |-> 0, word |-> <<>>]
Ok(v) == [kind |-> "ok", val |-> v, err |-> "none", arg |-> 0, word |-> <<>>]
\* Ok of a usize kept digit by digit, as read_compressed_literal returns it.
OkWord(w) == [kind |-> "ok", val |-> 0, err |-> "none", arg |-> 0, word |-> w]
ErrInvalidBitCount(n) == [kind |-> "err", val |-> 0, err |-> "InvalidBitCount", arg |-> n, word |-> <<>>]
EofAsZero == [kind |-> "ok", val |-> 0, err |-> "none", arg |-> 0, word |-> <<>>]
ErrEof == [kind |-> "err", val |-> 0, err |-> "Eof", arg |-> 0, word |-> <<>>]
ErrInvalidTypeId(t) == [kind |-> "err", val |-> 0, err |-> "InvalidTypeId", arg |-> t, word |-> <<>>]
Panic(why) == [kind |-> "panic", val |-> 0, err |-> why, arg |-> 0, word |-> <<>>]

---------------------------------------------------------------------------
(* BitReader::read_bits.                                                    *)

\* One iteration of the while loop: [position, count, result] after it, and
\* byte, the index of the byte it read.
ReadChunk(d, s) ==
    LET byte_index == s.position \div 8
        bit_index == s.position % 8
        chunk_width == Min2(8 - bit_index, s.count)
        chunk_mask == (Pow2(chunk_width) - 1) % 256
        shift_count == 8 - bit_index - chunk_width
        bits == BitAnd(Shr(d[byte_index + 1], shift_count), chunk_mask)
    IN  [position |-> s.position + chunk_width,
         count |-> s.count - chunk_width,
         result |-> BitOr(Shl16(s.result, chunk_width), bits),
         byte |-> byte_index]

RECURSIVE ReadLoop(_, _)
ReadLoop(d, s) == IF s.count > 0 THEN ReadLoop(d, ReadChunk(d, s)) ELSE s

\* A read that would consume the last bit of the buffer refused.
ReadBitsCheckStrict(d, p, count) ==
    IF count > 16 THEN ErrInvalidBitCount(count)
    ELSE IF p + count >= 8 * Len(d) THEN ErrEof
    ELSE NoResult

\* The end of the buffer checked before the bit count.
ReadBitsCheckEofFirst(d, p, count) ==
    IF p + count > 8 * Len(d) THEN ErrEof
    ELSE IF count > 16 THEN ErrInvalidBitCount(count)
    ELSE NoResult

\* The bounds checks of read_bits: the error it returns, or NoResult to go on.
ReadBitsCheck(d, p, count) ==
    IF count > 16 THEN ErrInvalidBitCount(count)
    ELSE IF p + count > 8 * Len(d) THEN ErrEof
    ELSE NoResult

\* The position advanced by one bit less than was read.
ReadBitsOneShort(d, p, count) ==
    LET chk == ReadBitsCheck(d, p, count)
    IN  IF chk.kind # "none" THEN [res |-> chk, position |-> p, byte |-> -1]
        ELSE LET s == ReadLoop(d, [position |-> p, count |-> count, result |-> 0,
                                   byte |-> -1])
             IN  [res |-> Ok(s.result),
                  position |-> IF count = 0 THEN p ELSE s.position - 1,
                  byte |-> s.byte]

\* The position advanced before the end of the buffer is noticed.
ReadBitsAdvancing(d, p, count) ==
    LET chk == ReadBitsCheck(d, p, count)
    IN  IF chk.kind # "none" THEN [res |-> chk, position |-> p + count, byte |-> -1]
        ELSE LET s == ReadLoop(d, [position |-> p, count |-> count, result |-> 0,
                                   byte |-> -1])
             IN  [res |-> Ok(s.result), position |-> s.position, byte |-> s.byte]

\* read_bits(count) at position p: the Result, the position it leaves and
\* the index of the last byte it read (-1: none).
ReadBits(d, p, count) ==
    LET chk == ReadBitsCheck(d, p, count)
    IN  IF chk.kind # "none" THEN [res |-> chk, position |-> p, byte |-> -1]
        ELSE LET s == ReadLoop(d, [position |-> p, count |-> count, result |-> 0,
                                   byte |-> -1])
             IN  [res |-> Ok(s.result), position |-> s.position, byte |-> s.byte]


---------------------------------------------------------------------------
(* BitReader::read_compressed_literal.                                      *)
(*                                                                          *)
(* A usize is kept as its USizeNibbles hexadecimal digits, most significant *)
(* first, so that result <<= 4 loses the top digit exactly as the 64-bit    *)
(* register does.  read_compressed_literal returns the register; the       *)
(* decoders, whose sums and products are numbers, take its number.          *)

USizeZero == [i \in 1..USizeNibbles |-> 0]

\* The register not shifted.
USizeShl4None(w) == w

\* The shift in a register of 32 bits.
USizeShl4Narrow(w) == [i \in 1..8 |-> 0] \o SubSeq(Tail(w) \o <<0>>, 9, 16)

\* result <<= 4
USizeShl4(w) == Tail(w) \o <<0>>

\* The register overwritten by the digit.
USizeOrLowAssign(w, x) == [i \in 1..USizeNibbles |-> IF i = USizeNibbles THEN x ELSE 0]

\* result |= x, for an x below 16
USizeOrLow(w, x) == [w EXCEPT ![USizeNibbles] = BitOr(@, x)]

RECURSIVE NibblesToNat(_, _)
NibblesToNat(w, acc) ==
    IF w = <<>> THEN acc ELSE NibblesToNat(Tail(w), acc * 16 + Head(w))

\* The number a usize register holds.
USizeToNat(w) == NibblesToNat(w, 0)

\* The groups read so far returned as the value when the buffer ends.
RECURSIVE LiteralLoopPartial(_, _)
LiteralLoopPartial(d, s) ==
    LET r == ReadBits(d, s.position, 5)
        chunk == r.res.val
        result == USizeOrLow(USizeShl4(s.result), BitAnd(chunk, 15))
    IN  IF r.res.kind = "err"
        THEN [res |-> OkWord(s.result), position |-> r.position, word |-> s.result,
              groups |-> s.groups, read_at |-> s.position, byte |-> s.byte]
        ELSE IF BitAnd(chunk, 16) = 0
        THEN [res |-> OkWord(result), position |-> r.position, word |-> result,
              groups |-> s.groups + 1, read_at |-> s.position, byte |-> r.byte]
        ELSE LiteralLoopPartial(d, [position |-> r.position, result |-> result,
                                    groups |-> s.groups + 1, byte |-> r.byte])

\* The position put back to where the literal began when a read fails.
RECURSIVE LiteralLoopRestoring(_, _)
LiteralLoopRestoring(d, s) ==
    LET r == ReadBits(d, s.position, 5)
        chunk == r.res.val
        result == USizeOrLow(USizeShl4(s.result), BitAnd(chunk, 15))
    IN  IF r.res.kind = "err"
        THEN [res |-> r.res, position |-> s.position - 5 * s.groups, word |-> s.result,
              groups |-> s.groups, read_at |-> s.position, byte |-> s.byte]
        ELSE IF BitAnd(chunk, 16) = 0
        THEN [res |-> OkWord(result), position |-> r.position, word |-> result,
              groups |-> s.groups + 1, read_at |-> s.position, byte |-> r.byte]
        ELSE LiteralLoopRestoring(d, [position |-> r.position, result |-> result,
                                      groups |-> s.groups + 1, byte |-> r.byte])

\* The body of the loop, from a state [position, result, groups]: the chunk
\* read, then either the error, the next iteration or the break.
RECURSIVE LiteralLoop(_, _)
LiteralLoop(d, s) ==
    LET r == ReadBits(d, s.position, 5)
        chunk == r.res.val
        result == USizeOrLow(USizeShl4(s.result), BitAnd(chunk, 15))
    IN  IF r.res.kind = "err"
        THEN [res |-> r.res, position |-> r.position, word |-> s.result,
              groups |-> s.groups, read_at |-> s.position, byte |-> s.byte]
        ELSE IF BitAnd(chunk, 16) = 0
        THEN [res |-> OkWord(result), position |-> r.position, word |-> result,
              groups |-> s.groups + 1, read_at |-> s.position, byte |-> r.byte]
        ELSE LiteralLoop(d, [position |-> r.position, result |-> result,
                             groups |-> s.groups + 1, byte |-> r.byte])

\* read_compressed_literal() at position p: the Result, the position it
\* leaves, the register, the number of complete groups read and where the
\* last read_bits(5) started.
ReadCompressedLiteral(d, p) ==
    LiteralLoop(d, [position |-> p, result |-> USizeZero, groups |-> 0, byte |-> -1])


---------------------------------------------------------------------------
(* The buffers the reader is driven over directly.                          *)

MaxReaderLen == 3
MaxCount == 18

Prefix(b, k) == SubSeq(b, 1, Min2(k, Len(b)))

ReaderSeeds ==
    { <<210, 254, 40, 165, 60>>,     \* D2 FE 28 A5 3C
      <<165, 60, 151, 1, 255>>,      \* A5 3C 97 01 FF
      <<8, 128, 255, 90, 0>> }       \* 08 80 FF 5A 00

ReaderData == { Prefix(b, k) : b \in ReaderSeeds, k \in 0..MaxReaderLen }

ReaderInputs ==
    { [kind |-> "reader", data |-> d, tree |-> <<>>, cut |-> Len(d), pad |-> 0,
       extra |-> <<>>] : d \in ReaderData }

---------------------------------------------------------------------------
(* The buffers part1 and part2 are run on: the wire form of packet trees    *)
(* (what parse_input hands over for a transmission), whole, with their      *)
(* padding varied, cut short, or with a length field that disagrees with    *)
(* the children that follow; and short buffers of arbitrary bytes.          *)

MaxKids == 3
MaxGroups == 2
MaxDepth == 2
MaxRawLen == 2

\* A packet: a literal (type_id 4) holds value in ngroups five-bit groups;
\* an operator holds kids, announced by length_type_id ltid; its length
\* field is the true length (or count) plus delta.
Lit(v, val, ng) ==
    [version |-> v, type_id |-> 4, ltid |-> 0, value |-> val, ngroups |-> ng,
     delta |-> 0, kids |-> <<>>]

Op(v, ty, lt, ks) ==
    [version |-> v, type_id |-> ty, ltid |-> lt, value |-> 0, ngroups |-> 0,
     delta |-> 0, kids |-> ks]

RECURSIVE ToBits(_, _)
ToBits(n, width) ==
    IF width = 0 THEN <<>> ELSE ToBits(n \div 2, width - 1) \o <<n % 2>>

RECURSIVE LitGroups(_, _)
LitGroups(val, ng) ==
    IF ng = 0 THEN <<>>
    ELSE LitGroups(val \div 16, ng - 1) \o <<1>> \o ToBits(val % 16, 4)

\* The groups of a literal: the continuation flag is clear on the last only.
EncodeLiteral(val, ng) ==
    [LitGroups(val, ng) EXCEPT ![5 * (ng - 1) + 1] = 0]

RECURSIVE Flatten(_)
Flatten(ss) == IF ss = <<>> THEN <<>> ELSE Head(ss) \o Flatten(Tail(ss))

RECURSIVE EncodePacket(_)
EncodePacket(t) ==
    LET body == Flatten([i \in 1..Len(t.kids) |-> EncodePacket(t.kids[i])])
    IN  ToBits(t.version, 3) \o ToBits(t.type_id, 3) \o
        (IF t.type_id = 4 THEN EncodeLiteral(t.value, t.ngroups)
         ELSE IF t.ltid = 0 THEN <<0>> \o ToBits(Len(body) + t.delta, 15) \o body
         ELSE <<1>> \o ToBits(Len(t.kids) + t.delta, 11) \o body)

RECURSIVE FromBits(_, _)
FromBits(bits, acc) ==
    IF bits = <<>> THEN acc ELSE FromBits(Tail(bits), 2 * acc + Head(bits))

\* The bytes of a bit string, its last byte filled up with the bit pad.
Pack(bits, pad) ==
    LET n == (Len(bits) + 7) \div 8
        bit(i) == IF i <= Len(bits) THEN bits[i] ELSE pad
    IN  [k \in 1..n |-> FromBits([j \in 1..8 |-> bit(8 * (k - 1) + j)], 0)]

SeqsUpTo(S, n) == UNION { [1..k -> S] : k \in 0..n }

LitA == Lit(6, 1, 1)
LitB == Lit(2, 3, 1)
LitC == Lit(5, 20, MaxGroups)
Lits == {LitA, LitB, LitC}

OpTypes == {0, 1, 2, 3, 5, 6, 7}
OpVersion(ty, lt) == (ty + 3 * lt + 1) % 8

\* Operators over literals only.
FlatOps ==
    { Op(OpVersion(ty, lt), ty, lt, ks) :
        ty \in OpTypes, lt \in {0, 1}, ks \in SeqsUpTo(Lits, MaxKids) }

\* The operators that are nested into others: depth 1, then wrapped.
RECURSIVE Inner(_)
Inner(d) ==
    IF d = 1
    THEN { Op(1, 0, 0, <<LitA, LitB>>), Op(4, 1, 1, <<LitB, LitB>>),
           Op(0, 3, 1, <<>>), Op(2, 6, 0, <<LitA, LitC>>) }
    ELSE { Op(d, 0, d % 2, <<x>>) : x \in Inner(d - 1) }

NestedOps(d) ==
    { Op(OpVersion(ty, lt), ty, lt, ks) :
        ty \in OpTypes, lt \in {0, 1},
        ks \in { s \in SeqsUpTo(Inner(d - 1) \cup {LitA}, 2) :
                   \E i \in 1..Len(s) : s[i] # LitA } }

Trees == Lits \cup FlatOps \cup UNION { NestedOps(d) : d \in 2..MaxDepth }

\* The trees whose buffers are also varied.
SmallTrees ==
    Lits \cup Inner(1)
    \cup { Op(OpVersion(ty, lt), ty, lt, ks) :
             ty \in {0, 2, 5}, lt \in {0, 1}, ks \in SeqsUpTo({LitA, LitC}, 2) }
    \cup { Op(7, 0, lt, <<LitB, x>>) : lt \in {0, 1}, x \in Inner(1) }

\* A length field that disagrees with the children: at the root, or in the
\* first child.
Tampered ==
    { [t EXCEPT !.delta = dl] : t \in SmallTrees \ Lits, dl \in {-1, 1} }
    \cup { [t EXCEPT !.kids[1].delta = dl] :
             t \in { u \in SmallTrees : u.kids # <<>> /\ u.kids[1].type_id # 4 },
             dl \in {-1, 1} }

RECURSIVE FieldsFit(_)
FieldsFit(t) ==
    /\ t.type_id # 4 =>
         IF t.ltid = 0
         THEN Len(EncodePacket([t EXCEPT !.delta = 0])) - 22 + t.delta >= 0
         ELSE Len(t.kids) + t.delta >= 0
    /\ \A i \in 1..Len(t.kids) : FieldsFit(t.kids[i])

TreeInput(t, cut, pad, extra) ==
    LET whole == Pack(EncodePacket(t), pad) \o extra
    IN  [kind |-> "tree", data |-> Prefix(whole, cut), tree |-> t,
         cut |-> Min2(cut, Len(whole)), pad |-> pad, extra |-> extra]

ByteLen(t) == (Len(EncodePacket(t)) + 7) \div 8

TreeInputs ==
    { TreeInput(t, ByteLen(t), 0, <<>>) : t \in Trees }
    \cup { TreeInput(t, ByteLen(t) + Len(extra), pad, extra) :
             t \in SmallTrees, pad \in {0, 1}, extra \in {<<>>, <<255>>, <<0, 178>>} }
    \cup UNION { { TreeInput(t, cut, 0, <<>>) : cut \in 0..(ByteLen(t) - 1) } :
                   t \in SmallTrees }
    \cup { TreeInput(t, ByteLen(t) + Len(extra), 0, extra) :
             t \in { u \in Tampered : FieldsFit(u) }, extra \in {<<>>, <<255>>} }

RawBytes == {0, 10, 56, 210, 255}

RawInputs ==
    { [kind |-> "raw", data |-> d, tree |-> <<>>, cut |-> Len(d), pad |-> 0,
       extra |-> <<>>] : d \in SeqsUpTo(RawBytes, MaxRawLen) }

\* A literal of more groups than a usize has hexadecimal digits, none of
\* its digits zero, for the reader to be driven over directly.
MaxLongGroups == 17

LongDigits == [i \in 1..MaxLongGroups |-> (i % 15) + 1]

\* The groups of a literal, given its digits: the flag is clear on the last.
EncodeGroups(digits) ==
    Flatten([i \in 1..Len(digits) |->
                <<IF i < Len(digits) THEN 1 ELSE 0>> \o ToBits(digits[i], 4)])

LongInputs ==
    { [kind |-> "reader", data |-> Pack(EncodeGroups(LongDigits), 0), tree |-> <<>>,
       cut |-> 0, pad |-> 0, extra |-> <<>>] }

\* Transmissions with known results, as bytes.
Hex_D2FE28 == <<210, 254, 40>>
Hex_38006F45291200 == <<56, 0, 111, 69, 41, 18, 0>>
Hex_EE00D40C823060 == <<238, 0, 212, 12, 130, 48, 96>>
Hex_C200B40A82 == <<194, 0, 180, 10, 130>>
Hex_04005AC33890 == <<4, 0, 90, 195, 56, 144>>
Hex_9C0141080250320F1802104A08 == <<156, 1, 65, 8, 2, 80, 50, 15, 24, 2, 16, 74, 8>>

VectorInputs ==
    { [kind |-> "raw", data |-> d, tree |-> <<>>, cut |-> Len(d), pad |-> 0,
       extra |-> <<>>] :
        d \in { Hex_D2FE28, Hex_38006F45291200, Hex_EE00D40C823060,
                Hex_C200B40A82, Hex_04005AC33890, Hex_9C0141080250320F1802104A08 } }

Inputs == ReaderInputs \cup TreeInputs \cup RawInputs \cup LongInputs \cup VectorInputs

---------------------------------------------------------------------------
(* History records.                                                         *)

NoRead ==
    [position |-> 0, count |-> 0, res |-> NoResult, groups |-> 0, op |-> "none",
     byte |-> -1, read_at |-> 0]

\* A read_bits(count) call made at position p, with what it returned.
ReadRecord(p, count, r) ==
    [position |-> p, count |-> count, res |-> r.res, groups |-> 0, op |-> "read_bits",
     byte |-> r.byte, read_at |-> p]

\* A read_compressed_literal call made at position p: its last read_bits(5)
\* started at r.read_at.
LiteralRecord(p, r) ==
    [position |-> p, count |-> 5, res |-> r.res, groups |-> r.groups,
     op |-> "read_compressed_literal", byte |-> r.byte, read_at |-> r.read_at]

\* The read_bits(5) requests of a read_compressed_literal call made at
\* position p: one for each group read, and the one that failed.
LiteralReads(p, r) ==
    [k \in 1..(r.groups + IF r.res.kind = "err" THEN 1 ELSE 0) |->
        <<p + 5 * (k - 1), 5>>]

---------------------------------------------------------------------------
(* The packet format's constants.                                           *)

TYPE_ID_SUM == 0
TYPE_ID_PRODUCT == 1
TYPE_ID_MIN == 2
TYPE_ID_MAX == 3
TYPE_ID_LITERAL == 4
TYPE_ID_GT == 5
TYPE_ID_LT == 6
TYPE_ID_EQ == 7

LENGTH_TYPE_ID_BIT_COUNT == 0
LENGTH_TYPE_ID_PACKET_COUNT == 1

---------------------------------------------------------------------------
(* Frames: one per active call of read_packet (part1) or evaluate (part2).  *)
(* pc is the statement the call is at; version .. i are the locals; start,  *)
(* base, own_version, field, kids, end and res are history: where the call  *)
(* started, the eval_stack length it started with, the version and length   *)
(* field as read, what each finished child call spanned and returned, and   *)
(* where and with what the call itself returned.                            *)

NewFrame(fn, start, base) ==
    [fn |-> fn, pc |-> "version",
     version |-> 0, type_id |-> 0, length_type_id |-> 0, total_bit_length |-> 0,
     end_index |-> 0, operand_count |-> 0, i |-> 0,
     start |-> start, base |-> base, own_version |-> 0, field |-> 0,
     header_end |-> 0, kids |-> <<>>, end |-> 0, res |-> NoResult]

NoCall == NewFrame("none", 0, 0)

Top == stack[Len(stack)]
Pop == SubSeq(stack, 1, Len(stack) - 1)
SetTop(f) == [stack EXCEPT ![Len(stack)] = f]

\* The innermost call is fn, at statement pc.
At(fn, pc) == stack # <<>> /\ Top.fn = fn /\ Top.pc = pc

\* What a finished call leaves for history: its frame, end and result.
Finished(f, p, res) == [f EXCEPT !.end = p, !.res = res, !.pc = "returned"]

\* The child call f appended to its caller's history.
KidOf(f) == [start |-> f.start, end |-> f.end, val |-> f.res.val, type_id |-> f.type_id]

\* A call of fn starts at the current position.
PushCall(caller, fn) ==
    SetTop(caller) \o <<NewFrame(fn, position, Len(eval_stack))>>

---------------------------------------------------------------------------
(* BitReader::new, then the calls a user of the reader makes.               *)

Init ==
    /\ input \in Inputs
    /\ data = input.data
    /\ position = 0
    /\ entry = "idle"
    /\ stack = <<>>
    /\ eval_stack = <<>>
    /\ ret = NoResult
    /\ last_read = NoRead
    /\ last_call = NoCall
    /\ versions = <<>>
    /\ reads = <<>>

\* reader.read_bits(count), called directly.
CallReadBits ==
    /\ input.kind = "reader"
    /\ \E count \in 0..MaxCount :
         LET r == ReadBits(data, position, count)
         IN  /\ position' = r.position
             /\ ret' = r.res
             /\ last_read' = ReadRecord(position, count, r)
             /\ UNCHANGED reads
    /\ entry' = "reader"
    /\ UNCHANGED <<data, versions, stack, eval_stack, input, last_call>>

\* reader.read_compressed_literal(), called directly.
CallReadCompressedLiteral ==
    /\ input.kind = "reader"
    /\ LET r == ReadCompressedLiteral(data, position)
       IN  /\ position' = r.position
           /\ ret' = r.res
           /\ last_read' = LiteralRecord(position, r)
           /\ UNCHANGED reads
    /\ entry' = "reader"
    /\ UNCHANGED <<data, versions, stack, eval_stack, input, last_call>>

---------------------------------------------------------------------------
(* part1: read_packet.                                                      *)

\* The version overwritten, not added to.
AddVersionAssign(version, child) == child

\* version += read_packet(..)?
AddVersion(version, child) == version + child

\* The loop entered once more at end_index.
WhileConditionInclusive(p, end_index) == p <= end_index

\* while reader.position < end_index
WhileCondition(p, end_index) == p < end_index

\* One iteration too many.
ForConditionInclusive(i, operand_count) == i <= operand_count

\* for _ in 0..operand_count
ForCondition(i, operand_count) == i < operand_count

\* The value a literal packet returns from read_packet.
ReadPacketLiteralValue(version, literal) == version

\* part1(input): a reader at position 0, and the root call.
\* (The buffers of ReaderInputs are only read from directly.)
Part1 ==
    /\ entry = "idle"
    /\ input.kind \in {"tree", "raw"}
    /\ entry' = "part1"
    /\ position' = 0
    /\ stack' = <<NewFrame("read_packet", 0, 0)>>
    /\ UNCHANGED <<data, versions, eval_stack, ret, input, last_read, reads, last_call>>

\* The call returns res to its caller.
ReturnFrom(f, p, res) ==
    /\ stack' = Pop
    /\ ret' = res
    /\ last_call' = Finished(f, p, res)

\* let mut version = reader.read_bits(3)? as usize;
ReadPacketVersion ==
    /\ At("read_packet", "version")
    /\ LET r == ReadBits(data, position, 3)
       IN  /\ position' = r.position
           /\ last_read' = ReadRecord(position, 3, r)
           /\ reads' = Append(reads, <<position, 3>>)
           /\ IF r.res.kind = "err"
              THEN ReturnFrom(Top, r.position, r.res)
              ELSE /\ stack' = SetTop([Top EXCEPT !.version = r.res.val,
                                                  !.own_version = r.res.val,
                                                  !.pc = "type_id"])
                   /\ UNCHANGED <<ret, last_call>>
           /\ versions' = IF r.res.kind = "err" THEN versions
                          ELSE Append(versions, r.res.val)
    /\ UNCHANGED <<data, entry, eval_stack, input>>

\* let type_id = reader.read_bits(3)?;  if type_id == TYPE_ID_LITERAL ..
ReadPacketTypeId ==
    /\ At("read_packet", "type_id")
    /\ LET r == ReadBits(data, position, 3)
       IN  /\ position' = r.position
           /\ last_read' = ReadRecord(position, 3, r)
           /\ reads' = Append(reads, <<position, 3>>)
           /\ IF r.res.kind = "err"
              THEN ReturnFrom(Top, r.position, r.res)
              ELSE /\ stack' = SetTop([Top EXCEPT
                          !.type_id = r.res.val,
                          !.pc = IF r.res.val = TYPE_ID_LITERAL THEN "literal"
                                 ELSE "length_type_id"])
                   /\ UNCHANGED <<ret, last_call>>
    /\ UNCHANGED <<data, versions, entry, eval_stack, input>>

\* let _literal = reader.read_compressed_literal()?;  Ok(version)
ReadPacketLiteral ==
    /\ At("read_packet", "literal")
    /\ LET r == ReadCompressedLiteral(data, position)
       IN  /\ position' = r.position
           /\ last_read' = LiteralRecord(position, r)
           /\ reads' = reads \o LiteralReads(position, r)
           /\ IF r.res.kind = "err"
              THEN ReturnFrom(Top, r.position, r.res)
              ELSE ReturnFrom([Top EXCEPT !.header_end = position], r.position,
                              Ok(ReadPacketLiteralValue(Top.version, r.res.word)))
    /\ UNCHANGED <<data, versions, entry, eval_stack, input>>

\* let length_type_id = reader.read_bits(1)?;  if length_type_id == ..
ReadPacketLengthTypeId ==
    /\ At("read_packet", "length_type_id")
    /\ LET r == ReadBits(data, position, 1)
       IN  /\ position' = r.position
           /\ last_read' = ReadRecord(position, 1, r)
           /\ reads' = Append(reads, <<position, 1>>)
           /\ IF r.res.kind = "err"
              THEN ReturnFrom(Top, r.position, r.res)
              ELSE /\ stack' = SetTop([Top EXCEPT
                          !.length_type_id = r.res.val,
                          !.pc = IF r.res.val = LENGTH_TYPE_ID_BIT_COUNT
                                 THEN "total_bit_length" ELSE "operand_count"])
                   /\ UNCHANGED <<ret, last_call>>
    /\ UNCHANGED <<data, versions, entry, eval_stack, input>>

\* let total_bit_length = reader.read_bits(15)? as usize;
\* let end_index = reader.position + total_bit_length;
ReadPacketTotalBitLength ==
    /\ At("read_packet", "total_bit_length")
    /\ LET r == ReadBits(data, position, 15)
       IN  /\ position' = r.position
           /\ last_read' = ReadRecord(position, 15, r)
           /\ reads' = Append(reads, <<position, 15>>)
           /\ IF r.res.kind = "err"
              THEN ReturnFrom(Top, r.position, r.res)
              ELSE /\ stack' = SetTop([Top EXCEPT
                          !.total_bit_length = r.res.val,
                          !.end_index = r.position + r.res.val,
                          !.field = r.res.val,
                          !.header_end = r.position,
                          !.pc = "while"])
                   /\ UNCHANGED <<ret, last_call>>
    /\ UNCHANGED <<data, versions, entry, eval_stack, input>>

\* let operand_count = reader.read_bits(11)? as usize;
ReadPacketOperandCount ==
    /\ At("read_packet", "operand_count")
    /\ LET r == ReadBits(data, position, 11)
       IN  /\ position' = r.position
           /\ last_read' = ReadRecord(position, 11, r)
           /\ reads' = Append(reads, <<position, 11>>)
           /\ IF r.res.kind = "err"
              THEN ReturnFrom(Top, r.position, r.res)
              ELSE /\ stack' = SetTop([Top EXCEPT
                          !.operand_count = r.res.val,
                          !.field = r.res.val,
                          !.header_end = r.position,
                          !.i = 0,
                          !.pc = "for"])
                   /\ UNCHANGED <<ret, last_call>>
    /\ UNCHANGED <<data, versions, entry, eval_stack, input>>

\* while reader.position < end_index { .. read_packet(&mut reader) .. }
\* and, the loop left, Ok(version).
ReadPacketWhile ==
    /\ At("read_packet", "while")
    /\ IF WhileCondition(position, Top.end_index)
       THEN /\ stack' = PushCall([Top EXCEPT !.pc = "while_call"], "read_packet")
            /\ UNCHANGED <<ret, last_call>>
       ELSE ReturnFrom(Top, position, Ok(Top.version))
    /\ UNCHANGED <<data, versions, position, entry, eval_stack, input, last_read, reads>>

\* for _ in 0..operand_count { .. read_packet(&mut reader) .. }
\* and, the loop left, Ok(version).
ReadPacketFor ==
    /\ At("read_packet", "for")
    /\ IF ForCondition(Top.i, Top.operand_count)
       THEN /\ stack' = PushCall([Top EXCEPT !.pc = "for_call", !.i = @ + 1],
                                 "read_packet")
            /\ UNCHANGED <<ret, last_call>>
       ELSE ReturnFrom(Top, position, Ok(Top.version))
    /\ UNCHANGED <<data, versions, position, entry, eval_stack, input, last_read, reads>>

\* version += read_packet(&mut reader)?;  with the child's result at hand:
\* an error is returned on, a value is added.
ReadPacketChildReturned ==
    /\ stack # <<>> /\ Top.fn = "read_packet"
    /\ Top.pc \in {"while_call", "for_call"}
    /\ ret.kind \in {"ok", "err"}
    /\ IF ret.kind = "err"
       THEN ReturnFrom(Top, position, ret)
       ELSE /\ stack' = SetTop([Top EXCEPT
                   !.version = AddVersion(@, ret.val),
                   !.kids = Append(@, KidOf(last_call)),
                   !.pc = IF Top.pc = "while_call" THEN "while" ELSE "for"])
            /\ ret' = NoResult
            /\ UNCHANGED last_call
    /\ UNCHANGED <<data, versions, position, entry, eval_stack, input, last_read, reads>>

---------------------------------------------------------------------------
(* part2: evaluate.                                                         *)

RECURSIVE SeqSum(_)
SeqSum(xs) == IF xs = <<>> THEN 0 ELSE Head(xs) + SeqSum(Tail(xs))

\* The product of no operands taken as 0.
RECURSIVE SeqProductNoUnit(_)
SeqProductNoUnit(xs) ==
    IF xs = <<>> THEN 0
    ELSE IF Len(xs) = 1 THEN xs[1]
    ELSE Head(xs) * SeqProductNoUnit(Tail(xs))

RECURSIVE SeqProduct(_)
SeqProduct(xs) == IF xs = <<>> THEN 1 ELSE Head(xs) * SeqProduct(Tail(xs))

RECURSIVE SeqMin(_)
SeqMin(xs) ==
    IF Len(xs) = 1 THEN xs[1] ELSE Min2(Head(xs), SeqMin(Tail(xs)))

RECURSIVE SeqMax(_)
SeqMax(xs) ==
    IF Len(xs) = 1 THEN xs[1]
    ELSE IF Head(xs) > SeqMax(Tail(xs)) THEN Head(xs) ELSE SeqMax(Tail(xs))

BoolToUSize(b) == IF b THEN 1 ELSE 0

\* &eval_stack[eval_stack.len() - operand_count..]
Operands(es, operand_count) == SubSeq(es, Len(es) - operand_count + 1, Len(es))

\* The stack cleared.
PopOperandsAll(es, operand_count) == <<>>

\* The operands left on the stack.
PopOperandsKeep(es, operand_count) == es

\* eval_stack.resize(eval_stack.len() - operand_count, 0)
PopOperands(es, operand_count) == SubSeq(es, 1, Len(es) - operand_count)

\* eval_stack.push(result)
PushOperand(es, result) == Append(es, result)

\* The value a literal packet returns from evaluate: the register's number.
EvaluateLiteralValue(version, literal) == USizeToNat(literal)

\* The comparisons with their operands the other way round.
ComputeSwapped(type_id, operands) ==
    CASE type_id = 0 -> Ok(SeqSum(operands))
      [] type_id = 1 -> Ok(SeqProduct(operands))
      [] type_id = 2 ->
            IF operands = <<>> THEN Panic("unwrap on None") ELSE Ok(SeqMin(operands))
      [] type_id = 3 ->
            IF operands = <<>> THEN Panic("unwrap on None") ELSE Ok(SeqMax(operands))
      [] type_id = 5 ->
            IF Len(operands) < 2 THEN Panic("index out of bounds")
            ELSE Ok(BoolToUSize(operands[2] > operands[1]))
      [] type_id = 6 ->
            IF Len(operands) < 2 THEN Panic("index out of bounds")
            ELSE Ok(BoolToUSize(operands[2] < operands[1]))
      [] type_id = 7 ->
            IF Len(operands) < 2 THEN Panic("index out of bounds")
            ELSE Ok(BoolToUSize(operands[2] = operands[1]))
      [] OTHER -> ErrInvalidTypeId(type_id)

\* match type_id { .. }: min and max unwrap the Option of an iterator that
\* may be empty, the comparisons index operands 0 and 1.
\* (The usize sum and product stay far below 2^64 on the buffers decoded
\* here, so neither wraps nor overflows.)
\* The comparisons over the last two operands.
ComputeLastTwo(type_id, operands) ==
    LET n == Len(operands)
    IN  CASE type_id = 0 -> Ok(SeqSum(operands))
          [] type_id = 1 -> Ok(SeqProduct(operands))
          [] type_id = 2 ->
                IF operands = <<>> THEN Panic("unwrap on None") ELSE Ok(SeqMin(operands))
          [] type_id = 3 ->
                IF operands = <<>> THEN Panic("unwrap on None") ELSE Ok(SeqMax(operands))
          [] type_id = 5 ->
                IF n < 2 THEN Panic("index out of bounds")
                ELSE Ok(BoolToUSize(operands[n - 1] > operands[n]))
          [] type_id = 6 ->
                IF n < 2 THEN Panic("index out of bounds")
                ELSE Ok(BoolToUSize(operands[n - 1] < operands[n]))
          [] type_id = 7 ->
                IF n < 2 THEN Panic("index out of bounds")
                ELSE Ok(BoolToUSize(operands[n - 1] = operands[n]))
          [] OTHER -> ErrInvalidTypeId(type_id)

\* The comparisons with operands[0] on both sides.
ComputeFirstTwice(type_id, operands) ==
    CASE type_id = 0 -> Ok(SeqSum(operands))
      [] type_id = 1 -> Ok(SeqProduct(operands))
      [] type_id = 2 ->
            IF operands = <<>> THEN Panic("unwrap on None") ELSE Ok(SeqMin(operands))
      [] type_id = 3 ->
            IF operands = <<>> THEN Panic("unwrap on None") ELSE Ok(SeqMax(operands))
      [] type_id = 5 ->
            IF Len(operands) < 2 THEN Panic("index out of bounds")
            ELSE Ok(BoolToUSize(operands[1] > operands[1]))
      [] type_id = 6 ->
            IF Len(operands) < 2 THEN Panic("index out of bounds")
            ELSE Ok(BoolToUSize(operands[1] < operands[1]))
      [] type_id = 7 ->
            IF Len(operands) < 2 THEN Panic("index out of bounds")
            ELSE Ok(BoolToUSize(operands[1] = operands[1]))
      [] OTHER -> ErrInvalidTypeId(type_id)

\* The match without its arm for equal-to.
ComputeNoEqual(type_id, operands) ==
    CASE type_id = TYPE_ID_SUM -> Ok(SeqSum(operands))
      [] type_id = TYPE_ID_PRODUCT -> Ok(SeqProduct(operands))
      [] type_id = TYPE_ID_MIN ->
            IF operands = <<>> THEN Panic("unwrap on None") ELSE Ok(SeqMin(operands))
      [] type_id = TYPE_ID_MAX ->
            IF operands = <<>> THEN Panic("unwrap on None") ELSE Ok(SeqMax(operands))
      [] type_id = TYPE_ID_GT ->
            IF Len(operands) < 2 THEN Panic("index out of bounds")
            ELSE Ok(BoolToUSize(operands[1] > operands[2]))
      [] type_id = TYPE_ID_LT ->
            IF Len(operands) < 2 THEN Panic("index out of bounds")
            ELSE Ok(BoolToUSize(operands[1] < operands[2]))
      [] OTHER -> ErrInvalidTypeId(type_id)

Compute(type_id, operands) ==
    CASE type_id = TYPE_ID_SUM -> Ok(SeqSum(operands))
      [] type_id = TYPE_ID_PRODUCT -> Ok(SeqProduct(operands))
      [] type_id = TYPE_ID_MIN ->
            IF operands = <<>> THEN Panic("unwrap on None") ELSE Ok(SeqMin(operands))
      [] type_id = TYPE_ID_MAX ->
            IF operands = <<>> THEN Panic("unwrap on None") ELSE Ok(SeqMax(operands))
      [] type_id = TYPE_ID_GT ->
            IF Len(operands) < 2 THEN Panic("index out of bounds")
            ELSE Ok(BoolToUSize(operands[1] > operands[2]))
      [] type_id = TYPE_ID_LT ->
            IF Len(operands) < 2 THEN Panic("index out of bounds")
            ELSE Ok(BoolToUSize(operands[1] < operands[2]))
      [] type_id = TYPE_ID_EQ ->
            IF Len(operands) < 2 THEN Panic("index out of bounds")
            ELSE Ok(BoolToUSize(operands[1] = operands[2]))
      [] OTHER -> ErrInvalidTypeId(type_id)

\* part2(input): a reader at position 0, an empty eval_stack, the root call.
Part2 ==
    /\ entry = "idle"
    /\ input.kind \in {"tree", "raw"}
    /\ entry' = "part2"
    /\ position' = 0
    /\ eval_stack' = <<>>
    /\ stack' = <<NewFrame("evaluate", 0, 0)>>
    /\ UNCHANGED <<data, versions, ret, input, last_read, reads, last_call>>

\* let _version = reader.read_bits(3)? as usize;
EvaluateVersion ==
    /\ At("evaluate", "version")
    /\ LET r == ReadBits(data, position, 3)
       IN  /\ position' = r.position
           /\ last_read' = ReadRecord(position, 3, r)
           /\ reads' = Append(reads, <<position, 3>>)
           /\ IF r.res.kind = "err"
              THEN ReturnFrom(Top, r.position, r.res)
              ELSE /\ stack' = SetTop([Top EXCEPT !.version = r.res.val,
                                                  !.own_version = r.res.val,
                                                  !.pc = "type_id"])
                   /\ UNCHANGED <<ret, last_call>>
           /\ versions' = IF r.res.kind = "err" THEN versions
                          ELSE Append(versions, r.res.val)
    /\ UNCHANGED <<data, entry, eval_stack, input>>

\* let type_id = reader.read_bits(3)?;  if type_id == TYPE_ID_LITERAL ..
EvaluateTypeId ==
    /\ At("evaluate", "type_id")
    /\ LET r == ReadBits(data, position, 3)
       IN  /\ position' = r.position
           /\ last_read' = ReadRecord(position, 3, r)
           /\ reads' = Append(reads, <<position, 3>>)
           /\ IF r.res.kind = "err"
              THEN ReturnFrom(Top, r.position, r.res)
              ELSE /\ stack' = SetTop([Top EXCEPT
                          !.type_id = r.res.val,
                          !.pc = IF r.res.val = TYPE_ID_LITERAL THEN "literal"
                                 ELSE "length_type_id"])
                   /\ UNCHANGED <<ret, last_call>>
    /\ UNCHANGED <<data, versions, entry, eval_stack, input>>

\* Ok(reader.read_compressed_literal()?)
EvaluateLiteral ==
    /\ At("evaluate", "literal")
    /\ LET r == ReadCompressedLiteral(data, position)
       IN  /\ position' = r.position
           /\ last_read' = LiteralRecord(position, r)
           /\ reads' = reads \o LiteralReads(position, r)
           /\ IF r.res.kind = "err"
              THEN ReturnFrom(Top, r.position, r.res)
              ELSE ReturnFrom([Top EXCEPT !.header_end = position], r.position,
                              Ok(EvaluateLiteralValue(Top.version, r.res.word)))
    /\ UNCHANGED <<data, versions, entry, eval_stack, input>>

\* let length_type_id = reader.read_bits(1)?;  let mut operand_count = 0;
EvaluateLengthTypeId ==
    /\ At("evaluate", "length_type_id")
    /\ LET r == ReadBits(data, position, 1)
       IN  /\ position' = r.position
           /\ last_read' = ReadRecord(position, 1, r)
           /\ reads' = Append(reads, <<position, 1>>)
           /\ IF r.res.kind = "err"
              THEN ReturnFrom(Top, r.position, r.res)
              ELSE /\ stack' = SetTop([Top EXCEPT
                          !.length_type_id = r.res.val,
                          !.operand_count = 0,
                          !.pc = IF r.res.val = LENGTH_TYPE_ID_BIT_COUNT
                                 THEN "total_bit_length" ELSE "operand_count"])
                   /\ UNCHANGED <<ret, last_call>>
    /\ UNCHANGED <<data, versions, entry, eval_stack, input>>

\* let total_bit_length = reader.read_bits(15)? as usize;
\* let end_index = reader.position + total_bit_length;
EvaluateTotalBitLength ==
    /\ At("evaluate", "total_bit_length")
    /\ LET r == ReadBits(data, position, 15)
       IN  /\ position' = r.position
           /\ last_read' = ReadRecord(position, 15, r)
           /\ reads' = Append(reads, <<position, 15>>)
           /\ IF r.res.kind = "err"
              THEN ReturnFrom(Top, r.position, r.res)
              ELSE /\ stack' = SetTop([Top EXCEPT
                          !.total_bit_length = r.res.val,
                          !.end_index = r.position + r.res.val,
                          !.field = r.res.val,
                          !.header_end = r.position,
                          !.pc = "while"])
                   /\ UNCHANGED <<ret, last_call>>
    /\ UNCHANGED <<data, versions, entry, eval_stack, input>>

\* operand_count = reader.read_bits(11)? as usize;
EvaluateOperandCount ==
    /\ At("evaluate", "operand_count")
    /\ LET r == ReadBits(data, position, 11)
       IN  /\ position' = r.position
           /\ last_read' = ReadRecord(position, 11, r)
           /\ reads' = Append(reads, <<position, 11>>)
           /\ IF r.res.kind = "err"
              THEN ReturnFrom(Top, r.position, r.res)
              ELSE /\ stack' = SetTop([Top EXCEPT
                          !.operand_count = r.res.val,
                          !.field = r.res.val,
                          !.header_end = r.position,
                          !.i = 0,
                          !.pc = "for"])
                   /\ UNCHANGED <<ret, last_call>>
    /\ UNCHANGED <<data, versions, entry, eval_stack, input>>

\* while reader.position < end_index { let result = evaluate(..)?; .. }
\* The loop of evaluate entered once more, with position = end_index.
EvaluateWhileInclusive ==
    /\ At("evaluate", "while")
    /\ stack' = IF WhileConditionInclusive(position, Top.end_index)
                THEN PushCall([Top EXCEPT !.pc = "while_call"], "evaluate")
                ELSE SetTop([Top EXCEPT !.pc = "compute"])
    /\ UNCHANGED <<data, versions, position, entry, eval_stack, ret, input, last_read, reads, last_call>>

EvaluateWhile ==
    /\ At("evaluate", "while")
    /\ stack' = IF WhileCondition(position, Top.end_index)
                THEN PushCall([Top EXCEPT !.pc = "while_call"], "evaluate")
                ELSE SetTop([Top EXCEPT !.pc = "compute"])
    /\ UNCHANGED <<data, versions, position, entry, eval_stack, ret, input, last_read, reads, last_call>>

\* for _ in 0..operand_count { let result = evaluate(..)?; .. }
EvaluateFor ==
    /\ At("evaluate", "for")
    /\ stack' = IF ForCondition(Top.i, Top.operand_count)
                THEN PushCall([Top EXCEPT !.pc = "for_call", !.i = @ + 1], "evaluate")
                ELSE SetTop([Top EXCEPT !.pc = "compute"])
    /\ UNCHANGED <<data, versions, position, entry, eval_stack, ret, input, last_read, reads, last_call>>

\* let result = evaluate(&mut reader, &mut eval_stack)?;
\* eval_stack.push(result);  and, in the while loop, operand_count += 1;
\* A child's error taken as the value 0 and the loop carried on.
EvaluateChildReturnedRecovering ==
    /\ stack # <<>> /\ Top.fn = "evaluate"
    /\ Top.pc \in {"while_call", "for_call"}
    /\ ret.kind \in {"ok", "err"}
    /\ eval_stack' = PushOperand(eval_stack, ret.val)
    /\ stack' = SetTop([Top EXCEPT
           !.operand_count = IF Top.pc = "while_call" THEN @ + 1 ELSE @,
           !.kids = Append(@, KidOf(last_call)),
           !.pc = IF Top.pc = "while_call" THEN "while" ELSE "for"])
    /\ ret' = NoResult
    /\ UNCHANGED <<data, versions, position, entry, input, last_read, reads, last_call>>

EvaluateChildReturned ==
    /\ stack # <<>> /\ Top.fn = "evaluate"
    /\ Top.pc \in {"while_call", "for_call"}
    /\ ret.kind \in {"ok", "err"}
    /\ IF ret.kind = "err"
       THEN /\ ReturnFrom(Top, position, ret)
            /\ UNCHANGED eval_stack
       ELSE /\ eval_stack' = PushOperand(eval_stack, ret.val)
            /\ stack' = SetTop([Top EXCEPT
                   !.operand_count = IF Top.pc = "while_call" THEN @ + 1 ELSE @,
                   !.kids = Append(@, KidOf(last_call)),
                   !.pc = IF Top.pc = "while_call" THEN "while" ELSE "for"])
            /\ ret' = NoResult
            /\ UNCHANGED last_call
    /\ UNCHANGED <<data, versions, position, entry, input, last_read, reads>>

\* The operands sliced out, the result computed, the operands popped, the
\* result returned.  Slicing panics when operand_count exceeds the length
\* of eval_stack; a panic unwinds every active call.
EvaluateCompute ==
    /\ At("evaluate", "compute")
    /\ LET result == IF Top.operand_count > Len(eval_stack)
                     THEN Panic("slice index out of range")
                     ELSE Compute(Top.type_id, Operands(eval_stack, Top.operand_count))
       IN  IF result.kind = "panic"
           THEN /\ stack' = <<>>
                /\ ret' = result
                /\ last_call' = Finished(Top, position, result)
                /\ UNCHANGED eval_stack
           ELSE /\ eval_stack' = PopOperands(eval_stack, Top.operand_count)
                /\ ReturnFrom(Top, position, result)
    /\ UNCHANGED <<data, versions, position, entry, input, last_read, reads>>

---------------------------------------------------------------------------
---------------------------------------------------------------------------
(* part1::read_packet as a function of the buffer: the result of the call   *)
(* made at position p, the position it leaves, and the read_bits requests   *)
(* rs extended by those it makes.                                            *)

RECURSIVE ReadPacketFn(_, _, _)
RECURSIVE ReadPacketWhileFn(_, _, _, _, _)
RECURSIVE ReadPacketForFn(_, _, _, _, _, _)

\* while reader.position < end_index { version += read_packet(&mut reader)?; }
ReadPacketWhileFn(d, p, rs, end_index, version) ==
    IF WhileCondition(p, end_index)
    THEN LET c == ReadPacketFn(d, p, rs)
         IN  IF c.res.kind = "err" THEN c
             ELSE ReadPacketWhileFn(d, c.position, c.reads, end_index,
                                    AddVersion(version, c.res.val))
    ELSE [res |-> Ok(version), position |-> p, reads |-> rs]

\* for _ in 0..operand_count { version += read_packet(&mut reader)?; }
ReadPacketForFn(d, p, rs, i, operand_count, version) ==
    IF ForCondition(i, operand_count)
    THEN LET c == ReadPacketFn(d, p, rs)
         IN  IF c.res.kind = "err" THEN c
             ELSE ReadPacketForFn(d, c.position, c.reads, i + 1, operand_count,
                                  AddVersion(version, c.res.val))
    ELSE [res |-> Ok(version), position |-> p, reads |-> rs]

ReadPacketFn(d, p, rs) ==
    LET version == ReadBits(d, p, 3)
        rs1 == Append(rs, <<p, 3>>)
        type_id == ReadBits(d, version.position, 3)
        rs2 == Append(rs1, <<version.position, 3>>)
        literal == ReadCompressedLiteral(d, type_id.position)
        length_type_id == ReadBits(d, type_id.position, 1)
        rs3 == Append(rs2, <<type_id.position, 1>>)
        total_bit_length == ReadBits(d, length_type_id.position, 15)
        operand_count == ReadBits(d, length_type_id.position, 11)
        Failed(r, rsn) == [res |-> r.res, position |-> r.position, reads |-> rsn]
    IN  IF version.res.kind = "err" THEN Failed(version, rs1)
        ELSE IF type_id.res.kind = "err" THEN Failed(type_id, rs2)
        ELSE IF type_id.res.val = TYPE_ID_LITERAL
        THEN [res |-> IF literal.res.kind = "err" THEN literal.res
                      ELSE Ok(ReadPacketLiteralValue(version.res.val, literal.res.word)),
              position |-> literal.position,
              reads |-> rs2 \o LiteralReads(type_id.position, literal)]
        ELSE IF length_type_id.res.kind = "err" THEN Failed(length_type_id, rs3)
        ELSE IF length_type_id.res.val = LENGTH_TYPE_ID_BIT_COUNT
        THEN IF total_bit_length.res.kind = "err"
             THEN Failed(total_bit_length, Append(rs3, <<length_type_id.position, 15>>))
             ELSE ReadPacketWhileFn(d, total_bit_length.position,
                                    Append(rs3, <<length_type_id.position, 15>>),
                                    total_bit_length.position + total_bit_length.res.val,
                                    version.res.val)
        ELSE IF operand_count.res.kind = "err"
             THEN Failed(operand_count, Append(rs3, <<length_type_id.position, 11>>))
             ELSE ReadPacketForFn(d, operand_count.position,
                                  Append(rs3, <<length_type_id.position, 11>>),
                                  0, operand_count.res.val, version.res.val)

\* part1(input), the reader at position 0.
Part1Fn(d) == ReadPacketFn(d, 0, <<>>)

Next ==
    \/ CallReadBits
    \/ CallReadCompressedLiteral
    \/ Part1
    \/ ReadPacketVersion
    \/ ReadPacketTypeId
    \/ ReadPacketLiteral
    \/ ReadPacketLengthTypeId
    \/ ReadPacketTotalBitLength
    \/ ReadPacketOperandCount
    \/ ReadPacketWhile
    \/ ReadPacketFor
    \/ ReadPacketChildReturned
    \/ Part2
    \/ EvaluateVersion
    \/ EvaluateTypeId
    \/ EvaluateLiteral
    \/ EvaluateLengthTypeId
    \/ EvaluateTotalBitLength
    \/ EvaluateOperandCount
    \/ EvaluateWhile
    \/ EvaluateFor
    \/ EvaluateChildReturned
    \/ EvaluateCompute

Spec == Init /\ [][Next]_vars

---------------------------------------------------------------------------
(* What the claims are stated against: the buffer read bit by bit, the      *)
(* packet tree a buffer was built from, and the calls that have returned.   *)

\* Bit i of the buffer, the most significant bit of a byte first.
BitAt(d, i) == (d[(i \div 8) + 1] \div Pow2(7 - (i % 8))) % 2

\* The number the n bits from offset p spell, the first bit the highest.
RECURSIVE BitsValue(_, _, _)
BitsValue(d, p, n) ==
    IF n = 0 THEN 0 ELSE 2 * BitsValue(d, p, n - 1) + BitAt(d, p + n - 1)

\* The literal whose g groups start at offset p: the low four bits of each.
RECURSIVE GroupsValue(_, _, _)
GroupsValue(d, p, g) ==
    IF g = 0 THEN 0
    ELSE 16 * GroupsValue(d, p, g - 1) + BitsValue(d, p + 5 * (g - 1) + 1, 4)

RECURSIVE TreeVersionSum(_)
TreeVersionSum(t) ==
    t.version + SeqSum([i \in 1..Len(t.kids) |-> TreeVersionSum(t.kids[i])])

\* The operand counts the format allows, and no tampered length field.
RECURSIVE WellFormed(_)
WellFormed(t) ==
    /\ t.delta = 0
    /\ t.type_id \in {0, 1, 2, 3} => Len(t.kids) >= 1
    /\ t.type_id \in {5, 6, 7} => Len(t.kids) = 2
    /\ \A i \in 1..Len(t.kids) : WellFormed(t.kids[i])

RECURSIVE Untampered(_)
Untampered(t) == t.delta = 0 /\ \A i \in 1..Len(t.kids) : Untampered(t.kids[i])

RECURSIVE TreeValue(_)
TreeValue(t) ==
    LET vs == [i \in 1..Len(t.kids) |-> TreeValue(t.kids[i])]
    IN  CASE t.type_id = 4 -> t.value
          [] t.type_id = 0 -> SeqSum(vs)
          [] t.type_id = 1 -> SeqProduct(vs)
          [] t.type_id = 2 -> SeqMin(vs)
          [] t.type_id = 3 -> SeqMax(vs)
          [] t.type_id = 5 -> IF vs[1] > vs[2] THEN 1 ELSE 0
          [] t.type_id = 6 -> IF vs[1] < vs[2] THEN 1 ELSE 0
          [] t.type_id = 7 -> IF vs[1] = vs[2] THEN 1 ELSE 0

\* The buffer holds the whole wire form of input.tree.
WholeTree == input.kind = "tree" /\ 8 * Len(data) >= Len(EncodePacket(input.tree))

\* part1 or part2 has returned to its caller, or panicked.
Done == entry \in {"part1", "part2"} /\ stack = <<>> /\ ret.kind # "none"

\* A call of read_packet or evaluate has just returned a value.
Returned == entry \in {"part1", "part2"} /\ ret.kind = "ok" /\ last_call.pc = "returned"

KidVals(f) == [i \in 1..Len(f.kids) |-> f.kids[i].val]

---------------------------------------------------------------------------
\* C1: in part1 every call that returns a value returns the version it read
\* plus the values its child calls returned (a literal: its version alone),
\* and the root call returns the sum of every version field read, which for
\* the wire form of a packet tree is the sum of the tree's versions.
C1_VersionSum ==
    (entry = "part1" /\ Returned) =>
        /\ ret.val = last_call.own_version + SeqSum(KidVals(last_call))
        /\ last_call.type_id = 4 => ret.val = BitsValue(data, last_call.start, 3)
        /\ Done => ret.val = SeqSum(versions)
        /\ (Done /\ WholeTree /\ Untampered(input.tree)) =>
               ret.val = TreeVersionSum(input.tree)

\* A root operator with a nested operator among three or more packets.
C1_Witness ==
    /\ entry = "part1" /\ Returned /\ Done
    /\ Len(versions) >= 4
    /\ \E i \in 1..Len(last_call.kids) : last_call.kids[i].type_id # 4
    /\ ret.val = SeqSum(versions)

C3_Comparisons ==
    (entry = "part2" /\ Returned /\ Len(last_call.kids) = 2) =>
        LET c0 == last_call.kids[1].val
            c1 == last_call.kids[2].val
        IN  /\ last_call.type_id = 5 => ret.val = (IF c0 > c1 THEN 1 ELSE 0)
            /\ last_call.type_id = 6 => ret.val = (IF c0 < c1 THEN 1 ELSE 0)
            /\ last_call.type_id = 7 => ret.val = (IF c0 = c1 THEN 1 ELSE 0)

\* A greater-than whose first operand is the greater: it returned 1.
C3_Witness ==
    /\ entry = "part2" /\ Returned
    /\ last_call.type_id = 5
    /\ Len(last_call.kids) = 2
    /\ last_call.kids[1].val > last_call.kids[2].val
    /\ ret.val = 1

\* C4: an operator in the length-in-bits form that returns a value has left
\* the position exactly at end_index, the position after its 15-bit length
\* field plus total_bit_length.
C4_LengthExact ==
    (Returned /\ last_call.type_id # 4 /\ last_call.length_type_id = 0) =>
        last_call.end = last_call.header_end + last_call.field

\* C5: an operator in the count form decodes no more child packets than the
\* 11-bit count it read; when it returns a value it has decoded exactly that
\* many, one after the other from the end of its header, and it ends where
\* its last child ended.
C5_CountExact ==
    /\ \A k \in 1..Len(stack) :
          (stack[k].pc \in {"for", "for_call"}) =>
              /\ stack[k].field = BitsValue(data, stack[k].start + 7, 11)
              /\ Len(stack[k].kids) <= stack[k].field
    /\ (Returned /\ last_call.type_id # 4 /\ last_call.length_type_id = 1) =>
          /\ last_call.field = BitsValue(data, last_call.start + 7, 11)
          /\ Len(last_call.kids) = last_call.field
          /\ \A k \in 1..Len(last_call.kids) :
                last_call.kids[k].start =
                    IF k = 1 THEN last_call.header_end ELSE last_call.kids[k - 1].end
          /\ last_call.end = IF last_call.kids = <<>> THEN last_call.header_end
                             ELSE last_call.kids[Len(last_call.kids)].end

\* evaluate returned from a count-form operator with three children.
C5_Witness ==
    /\ entry = "part2" /\ Returned
    /\ last_call.type_id # 4 /\ last_call.length_type_id = 1
    /\ last_call.field = 3
    /\ Len(last_call.kids) = 3
    /\ last_call.end = last_call.kids[3].end

\* C6: on a buffer that starts with the whole wire form of a well-formed
\* packet tree, whatever bits follow it, part1 and part2 decode one root
\* packet from offset 0, return the tree's version sum and value, and leave
\* the position at the first bit after the root packet.
C6_TrailingBitsIgnored ==
    (Done /\ WholeTree /\ WellFormed(input.tree)) =>
        /\ ret = Ok(IF entry = "part1" THEN TreeVersionSum(input.tree)
                    ELSE TreeValue(input.tree))
        /\ position = Len(EncodePacket(input.tree))
        /\ last_call.start = 0

\* A length-in-bits operator followed by padding of ones and two more bytes.
C6_Witness ==
    /\ Done /\ WholeTree /\ WellFormed(input.tree)
    /\ input.pad = 1 /\ Len(input.extra) = 2
    /\ input.tree.type_id # 4 /\ input.tree.ltid = 0
    /\ position < 8 * Len(data) - 16
    /\ ret.kind = "ok"

\* The buffer ends before the root packet it starts does.
Truncated ==
    \/ /\ input.kind = "tree"
       /\ Untampered(input.tree)
       /\ 8 * Len(data) < Len(EncodePacket(input.tree))
    \/ /\ input.kind \in {"tree", "raw"}
       /\ 8 * Len(data) < 11

C8_AlwaysAResult == Done => ret.kind \in {"ok", "err"}

\* C9: read_bits(count) with count <= 16 and position + count beyond the
\* buffer's bits returns Eof and leaves the position where it was.
C9_EofKeepsPosition ==
    (/\ last_read.op = "read_bits"
     /\ last_read.count <= 16
     /\ last_read.position + last_read.count > 8 * Len(data)) =>
        /\ last_read.res = ErrEof
        /\ position = last_read.position

\* A read in the middle of the last byte that asks for more than is left.
C9_Witness ==
    /\ entry = "reader" /\ last_read.op = "read_bits"
    /\ last_read.res = ErrEof
    /\ last_read.position % 8 # 0
    /\ last_read.position < 8 * Len(data)
    /\ last_read.position + last_read.count > 8 * Len(data)

\* C10: a read_bits(count) that succeeds returns the number spelled by the
\* count bits from the position it was called at, the first bit the most
\* significant, and advances the position by count.
C10_ReadBitsValue ==
    (last_read.op = "read_bits" /\ last_read.res.kind = "ok") =>
        /\ last_read.res.val = BitsValue(data, last_read.position, last_read.count)
        /\ position = last_read.position + last_read.count

\* Sixteen bits read from the last bit of a byte: three bytes touched.
C10_Witness ==
    /\ entry = "reader" /\ last_read.op = "read_bits"
    /\ last_read.res.kind = "ok"
    /\ last_read.count = 16
    /\ last_read.position % 8 = 7
    /\ last_read.res.val \notin {0, 65535}
    /\ position = last_read.position + 16

\* C11: the position is always between 0 and the number of bits of the
\* buffer, and the bytes read_bits indexes are bytes of the buffer.
C11_CursorInBounds ==
    /\ position >= 0
    /\ position <= 8 * Len(data)
    /\ last_read.byte >= -1
    /\ last_read.byte < Len(data)
    /\ last_read.res.kind = "ok" =>
          last_read.byte = IF position = last_read.position /\ last_read.op = "read_bits"
                           THEN -1 ELSE (position - 1) \div 8

\* part2 has read up to the last bit of a buffer, indexing its last byte.
C11_Witness ==
    /\ entry = "part2"
    /\ Len(data) > 0
    /\ position = 8 * Len(data)
    /\ last_read.byte = Len(data) - 1

\* C12: a read_bits(count) with count <= 16 that ends exactly at the last
\* bit of the buffer succeeds and leaves the position at the buffer's bit
\* length; read_bits fails for such a count only when position + count is
\* greater than the bit length.
C12_ExactEndSucceeds ==
    (last_read.op = "read_bits" /\ last_read.count <= 16) =>
        /\ last_read.position + last_read.count = 8 * Len(data) =>
              /\ last_read.res.kind = "ok"
              /\ position = 8 * Len(data)
        /\ last_read.res.kind = "err" =>
              last_read.position + last_read.count > 8 * Len(data)

\* A read of several bits, not from a byte boundary, that consumed the last bit.
C12_Witness ==
    /\ entry = "reader" /\ last_read.op = "read_bits"
    /\ last_read.count >= 9
    /\ last_read.position % 8 # 0
    /\ last_read.position + last_read.count = 8 * Len(data)
    /\ last_read.res.kind = "ok"
    /\ position = 8 * Len(data)

\* C13: read_bits(count) with count > 16 returns InvalidBitCount(count),
\* whatever the position and the bits that remain, and leaves the position
\* where it was.
C13_InvalidBitCount ==
    (last_read.op = "read_bits" /\ last_read.count > 16) =>
        /\ last_read.res = ErrInvalidBitCount(last_read.count)
        /\ position = last_read.position

\* Seventeen bits asked for where fewer remain.
C13_Witness ==
    /\ entry = "reader" /\ last_read.op = "read_bits"
    /\ last_read.count = 17
    /\ last_read.position > 0
    /\ last_read.position + 17 > 8 * Len(data)
    /\ last_read.res = ErrInvalidBitCount(17)

\* Seventeen bits asked for where more remain.
C13_WitnessEnough ==
    /\ entry = "reader" /\ last_read.op = "read_bits"
    /\ last_read.count = 17
    /\ last_read.position + 17 < 8 * Len(data)
    /\ last_read.res = ErrInvalidBitCount(17)

---------------------------------------------------------------------------
(* Literals, group by group.  An integer is compared digit by digit: the    *)
(* hexadecimal digits of the register against the low four bits of the      *)
(* groups in the buffer.                                                    *)

\* The continuation flag and the digit of group k of the groups from offset p.
GroupFlag(d, p, k) == BitAt(d, p + 5 * (k - 1))
GroupDigit(d, p, k) == BitsValue(d, p + 5 * (k - 1) + 1, 4)
GroupDigits(d, p, g) == [k \in 1..g |-> GroupDigit(d, p, k)]

RECURSIVE StripZeros(_)
StripZeros(ds) ==
    IF ds # <<>> /\ Head(ds) = 0 THEN StripZeros(Tail(ds)) ELSE ds

\* The last n of the digits ds, zeros in front where ds is shorter.
LastDigits(ds, n) ==
    LET padded == [i \in 1..n |-> 0] \o ds
    IN  SubSeq(padded, Len(padded) - n + 1, Len(padded))

\* A read_compressed_literal call has just returned a value.
LiteralRead == last_read.op = "read_compressed_literal" /\ last_read.res.kind = "ok"

\* The groups it read: flags set on all but the last, position 5 bits on
\* for each.
GroupsAsRead ==
    /\ last_read.groups >= 1
    /\ \A k \in 1..(last_read.groups - 1) : GroupFlag(data, last_read.position, k) = 1
    /\ GroupFlag(data, last_read.position, last_read.groups) = 0
    /\ position = last_read.position + 5 * last_read.groups

\* C14 as stated: read_compressed_literal reads groups up to the first with
\* a clear flag, advances 5 bits for each, and returns the integer whose
\* hexadecimal digits are the groups' low four bits.
C14_AllDigits ==
    LiteralRead =>
        /\ GroupsAsRead
        /\ StripZeros(last_read.res.word) =
              StripZeros(GroupDigits(data, last_read.position, last_read.groups))

\* C14, amended: ... and returns the integer whose hexadecimal digits are the
\* low four bits of the last 16 groups read (the integer of all the groups
\* modulo 2^64; all of it when at most 16 groups are read).
C14_DigitsOfRegister ==
    LiteralRead =>
        /\ GroupsAsRead
        /\ last_read.res.word =
              LastDigits(GroupDigits(data, last_read.position, last_read.groups),
                         USizeNibbles)

\* The literal 2021 of D2 FE 28: three groups, read from offset 6.
C14_Witness ==
    /\ entry = "reader" /\ LiteralRead
    /\ last_read.groups = 3
    /\ last_read.position = 6
    /\ StripZeros(last_read.res.word) = <<7, 14, 5>>
    /\ position = 21

\* The integer returned, written with g digits.
ValueDigits(g) == LastDigits(last_read.res.word, g)

\* C15 as stated: however many groups encode a literal, more than 16
\* included, every digit of every group is in the integer returned.
C15_NoDigitLost ==
    LiteralRead =>
        ValueDigits(last_read.groups) =
            GroupDigits(data, last_read.position, last_read.groups)

\* C15, amended: a literal of at most 16 groups (64 payload bits) is returned
\* in full; of a literal of more groups the digits of the last 16 groups are
\* returned and the digits before them are lost, without an error.
C15_SixteenDigits ==
    LiteralRead =>
        /\ last_read.groups <= USizeNibbles =>
              ValueDigits(last_read.groups) =
                  GroupDigits(data, last_read.position, last_read.groups)
        /\ last_read.groups > USizeNibbles =>
              /\ last_read.res.word =
                    SubSeq(GroupDigits(data, last_read.position, last_read.groups),
                           last_read.groups - USizeNibbles + 1, last_read.groups)
              /\ Len(StripZeros(last_read.res.word)) <= USizeNibbles

\* A literal of exactly 16 groups, its first digit not zero, read in full.
C15_Witness ==
    /\ entry = "reader" /\ LiteralRead
    /\ last_read.groups = USizeNibbles
    /\ last_read.res.word[1] # 0
    /\ last_read.res.word = GroupDigits(data, last_read.position, USizeNibbles)

\* The groups as they are in the buffer, and the returned integer encoded
\* again in as many groups.
GroupsInBuffer ==
    [i \in 1..(5 * last_read.groups) |-> BitAt(data, last_read.position + i - 1)]
ReEncoded == EncodeGroups(ValueDigits(last_read.groups))

\* C16 as stated: the integer returned, encoded again in the same number of
\* groups, decodes to the same integer and is the group sequence read.
C16_RoundTrip ==
    LiteralRead =>
        /\ ReadCompressedLiteral(Pack(ReEncoded, 0), 0).res = last_read.res
        /\ ReEncoded = GroupsInBuffer

\* C16, amended: ... decodes to the same integer, and is the group sequence
\* read when that has at most 16 groups.
C16_RoundTripSixteen ==
    LiteralRead =>
        /\ ReadCompressedLiteral(Pack(ReEncoded, 0), 0).res = last_read.res
        /\ ReadCompressedLiteral(Pack(ReEncoded, 0), 0).groups = last_read.groups
        /\ last_read.groups <= USizeNibbles => ReEncoded = GroupsInBuffer

\* A literal of two groups that does not start at a byte boundary.
C16_Witness ==
    /\ entry = "reader" /\ LiteralRead
    /\ last_read.groups = 2
    /\ last_read.position % 8 # 0
    /\ last_read.res.word[USizeNibbles - 1] # 0
    /\ ReEncoded = GroupsInBuffer

\* From offset p the buffer holds a group with a clear flag after groups
\* with their flags set.
RECURSIVE LiteralEnds(_, _)
LiteralEnds(d, p) ==
    IF p + 5 > 8 * Len(d) THEN FALSE
    ELSE IF BitAt(d, p) = 0 THEN TRUE
    ELSE LiteralEnds(d, p + 5)

\* C17: read_compressed_literal returns Eof whenever the buffer ends before
\* a group with a clear flag is complete, and a value only when the groups
\* end with such a group; at an Eof every group read had its flag set and
\* fewer than 5 bits remain.
C17_LiteralEof ==
    (last_read.op = "read_compressed_literal") =>
        /\ last_read.res.kind \in {"ok", "err"}
        /\ last_read.res.kind = "ok" <=> LiteralEnds(data, last_read.position)
        /\ last_read.res.kind = "err" =>
              /\ last_read.res.err = "Eof"
              /\ \A k \in 1..last_read.groups : GroupFlag(data, last_read.position, k) = 1
              /\ position = last_read.position + 5 * last_read.groups
              /\ 8 * Len(data) - position < 5

\* Two whole groups with their flags set, then fewer than five bits.
C17_Witness ==
    /\ last_read.op = "read_compressed_literal"
    /\ last_read.res.kind = "err"
    /\ last_read.res.err = "Eof"
    /\ last_read.groups = 2
    /\ 8 * Len(data) - position \in 1..4

---------------------------------------------------------------------------
(* Termination and errors of the two traversals.                            *)

\* C18: part1 and part2 return a value or an error on every buffer: a
\* traversal that has no call left on its stack has returned one.  While it
\* runs, each call starts after the call that made it and every child
\* decoded so far consumed at least one bit, so the calls in progress and
\* the children of each are bounded by the bits consumed; every call that
\* returned a value consumed at least one bit.
C18_Terminates ==
    /\ (entry \in {"part1", "part2"} /\ stack = <<>>) => ret.kind \in {"ok", "err"}
    /\ \A i \in 1..Len(stack) :
          /\ i > 1 => stack[i].start > stack[i - 1].start
          /\ stack[i].start <= position
          /\ \A k \in 1..Len(stack[i].kids) :
                stack[i].kids[k].end > stack[i].kids[k].start
          /\ Len(stack[i].kids) <= position - stack[i].start
    /\ (last_call.pc = "returned" /\ last_call.res.kind = "ok") =>
          last_call.end > last_call.start

\* C19: in both traversals, a failed read's error is the result from then
\* on: every step after it only returns from the innermost call in progress,
\* with the same error, reading no bit, starting no call, and leaving the
\* operands and the versions as they are.
C19_ErrorPropagates ==
    [][ /\ (entry' \in {"part1", "part2"} /\ ret'.kind = "err") =>
              /\ ret' = last_read'.res
              /\ last_call'.res = ret'
              /\ last_call'.pc = "returned"
        /\ (entry \in {"part1", "part2"} /\ ret.kind = "err") =>
              /\ ret' = ret
              /\ stack' = SubSeq(stack, 1, Len(stack) - 1)
              /\ last_call' = Finished(stack[Len(stack)], position, ret)
              /\ position' = position
              /\ last_read' = last_read
              /\ eval_stack' = eval_stack
              /\ versions' = versions ]_vars

\* An Eof two calls below the root of part2, on its way up past operands
\* already evaluated.
C19_Witness ==
    /\ entry = "part2"
    /\ ret = ErrEof
    /\ Len(stack) = 2
    /\ eval_stack # <<>>
    /\ last_call.start > stack[2].start

\* The same Eof returned by part2 itself.
C19_WitnessReturned ==
    /\ Done /\ entry = "part2" /\ ret = ErrEof
    /\ last_call.start = 0
    /\ last_call.kids # <<>>

\* C20: the only error part1 and part2 return is Eof: every read they make
\* asks for 1, 3, 11 or 15 bits, or for the 5 bits of a literal's group, so
\* none is an InvalidBitCount, and no type_id is an InvalidTypeId to part2.
C20_OnlyEof ==
    entry \in {"part1", "part2"} =>
        /\ ret.kind = "err" => ret = ErrEof
        /\ last_call.res.kind = "err" => last_call.res = ErrEof
        /\ last_read.op = "read_bits" => last_read.count \in {1, 3, 11, 15}
        /\ last_read.op = "read_compressed_literal" => last_read.count = 5
        /\ last_read.res.kind = "err" => last_read.res = ErrEof
        /\ \A i \in 1..Len(stack) : stack[i].type_id \in 0..7

\* part2 returns the Eof of an 11-bit read.
C20_Witness ==
    /\ Done /\ entry = "part2"
    /\ ret = ErrEof
    /\ last_read.op = "read_bits"
    /\ last_read.count = 11

\* An equal-to packet, type_id 7, evaluated by part2.
C20_WitnessEqual ==
    /\ Returned /\ entry = "part2"
    /\ last_call.type_id = TYPE_ID_EQ
    /\ Len(last_call.kids) = 2

---------------------------------------------------------------------------
(* Comparisons and the order of their operands.                             *)

\* A comparison packet with two operands has just been evaluated.
ComparedTwo ==
    /\ entry = "part2" /\ Returned
    /\ last_call.type_id \in {TYPE_ID_GT, TYPE_ID_LT, TYPE_ID_EQ}
    /\ Len(last_call.kids) = 2

\* What the same packet computes with its two operands the other way round.
SwappedResult ==
    Compute(last_call.type_id, <<last_call.kids[2].val, last_call.kids[1].val>>)

\* C21 as stated: swapping the two operands of a comparison flips the
\* outcome of greater-than and less-than and keeps the outcome of equal-to.
C21_SwapFlips ==
    ComparedTwo =>
        /\ SwappedResult.kind = "ok"
        /\ last_call.type_id \in {TYPE_ID_GT, TYPE_ID_LT} =>
              SwappedResult.val = 1 - ret.val
        /\ last_call.type_id = TYPE_ID_EQ => SwappedResult.val = ret.val

\* C21, amended: swapping the two operands flips the outcome of greater-than
\* and less-than when the operands' values differ (both orders give 0 when
\* they are equal), and keeps the outcome of equal-to.
C21_SwapFlipsWhenDifferent ==
    ComparedTwo =>
        LET c0 == last_call.kids[1].val
            c1 == last_call.kids[2].val
        IN  /\ SwappedResult.kind = "ok"
            /\ ret.val \in {0, 1}
            /\ (last_call.type_id \in {TYPE_ID_GT, TYPE_ID_LT} /\ c0 # c1) =>
                  SwappedResult.val = 1 - ret.val
            /\ (last_call.type_id \in {TYPE_ID_GT, TYPE_ID_LT} /\ c0 = c1) =>
                  (SwappedResult.val = 0 /\ ret.val = 0)
            /\ last_call.type_id = TYPE_ID_EQ => SwappedResult.val = ret.val

\* A less-than over a smaller and a greater value: 1, and 0 when swapped.
C21_Witness ==
    /\ ComparedTwo
    /\ last_call.type_id = TYPE_ID_LT
    /\ last_call.kids[1].val < last_call.kids[2].val
    /\ ret.val = 1
    /\ SwappedResult.val = 0

---------------------------------------------------------------------------
(* Transmissions with known results.                                        *)

\* C22: part1 returns 6 on D2FE28, whose literal decodes to 2021, 9 on
\* 38006F45291200 (versions 1, 6, 2) and 14 on EE00D40C823060 (versions 7, 2,
\* 4, 1).
C22_VersionSumVectors ==
    (Done /\ entry = "part1") =>
        /\ data = Hex_D2FE28 =>
              /\ ret = Ok(6)
              /\ versions = <<6>>
              /\ last_read.op = "read_compressed_literal"
              /\ USizeToNat(last_read.res.word) = 2021
        /\ data = Hex_38006F45291200 =>
              /\ ret = Ok(9)
              /\ versions = <<1, 6, 2>>
              /\ last_call.length_type_id = LENGTH_TYPE_ID_BIT_COUNT
        /\ data = Hex_EE00D40C823060 =>
              /\ ret = Ok(14)
              /\ versions = <<7, 2, 4, 1>>
              /\ last_call.length_type_id = LENGTH_TYPE_ID_PACKET_COUNT

\* part1 has returned 14 for the operator in the count form.
C22_Witness ==
    /\ Done /\ entry = "part1"
    /\ data = Hex_EE00D40C823060
    /\ ret = Ok(14)
    /\ Len(last_call.kids) = 3

\* C23: part2 returns 3 on C200B40A82 (the sum of 1 and 2), 54 on
\* 04005AC33890 (the product of 6 and 9) and 1 on 9C0141080250320F1802104A08
\* (equal-to over the sum 1 + 3 and the product 2 * 2).
C23_EvaluateVectors ==
    (Done /\ entry = "part2") =>
        /\ data = Hex_C200B40A82 =>
              /\ ret = Ok(3)
              /\ last_call.type_id = TYPE_ID_SUM
              /\ KidVals(last_call) = <<1, 2>>
        /\ data = Hex_04005AC33890 =>
              /\ ret = Ok(54)
              /\ last_call.type_id = TYPE_ID_PRODUCT
              /\ KidVals(last_call) = <<6, 9>>
        /\ data = Hex_9C0141080250320F1802104A08 =>
              /\ ret = Ok(1)
              /\ last_call.type_id = TYPE_ID_EQ
              /\ KidVals(last_call) = <<4, 4>>
              /\ last_call.kids[1].type_id = TYPE_ID_SUM
              /\ last_call.kids[2].type_id = TYPE_ID_PRODUCT

\* part2 has returned 1 for the equal-to over the nested sum and product.
C23_Witness ==
    /\ Done /\ entry = "part2"
    /\ data = Hex_9C0141080250320F1802104A08
    /\ ret = Ok(1)
    /\ eval_stack = <<>>

---------------------------------------------------------------------------
(* The operand stack of part2.                                              *)

\* The values pushed by the calls in progress, outermost first: each call's
\* children so far, in decode order.
PushedBy(st) == Flatten([i \in 1..Len(st) |-> KidVals(st[i])])

\* C24: while part2 has met no failure the eval stack holds exactly the
\* children's values of the calls in progress, so a call that returns a
\* value leaves the stack with the length and contents it had when the call
\* started; the operands an operator slices are its own children's values
\* in decode order, their number never more than the stack holds, and the
\* stack is empty when the root call returns a value.
C24_OperandDiscipline ==
    entry = "part2" =>
        /\ ret.kind \notin {"err", "panic"} => eval_stack = PushedBy(stack)
        /\ Returned =>
              /\ Len(eval_stack) = last_call.base
              /\ eval_stack = PushedBy(stack)
        /\ At("evaluate", "compute") =>
              /\ Top.operand_count = Len(Top.kids)
              /\ Top.operand_count <= Len(eval_stack)
              /\ Operands(eval_stack, Top.operand_count) = KidVals(Top)
              /\ Len(eval_stack) - Top.operand_count = Top.base
        /\ (Done /\ ret.kind = "ok") => eval_stack = <<>>
        /\ ret.kind = "panic" => ret.err # "slice index out of range"

\* A nested operator has returned its value to a caller that had already
\* pushed an operand, which is still there alone.
C24_Witness ==
    /\ entry = "part2" /\ Returned
    /\ Len(stack) = 1
    /\ last_call.type_id # TYPE_ID_LITERAL
    /\ Len(last_call.kids) = 2
    /\ last_call.base = 1
    /\ eval_stack = KidVals(stack[1])

---------------------------------------------------------------------------
(* The two traversals against each other.                                   *)

\* C25: on every buffer on which part2 returns a value or an error, part1
\* makes the same read_bits requests in the same order, ends at the same
\* position and has the same kind of outcome, with the same error when it
\* is one.  (part1 run step by step is part1 as a function of the buffer.)
C25_SameReads ==
    /\ (Done /\ entry = "part1") =>
          /\ ret = Part1Fn(data).res
          /\ position = Part1Fn(data).position
          /\ reads = Part1Fn(data).reads
    /\ (Done /\ entry = "part2" /\ ret.kind \in {"ok", "err"}) =>
          /\ reads = Part1Fn(data).reads
          /\ position = Part1Fn(data).position
          /\ ret.kind = Part1Fn(data).res.kind
          /\ ret.kind = "err" => ret = Part1Fn(data).res

\* part2 has returned a value for an operator in the length-in-bits form
\* that holds a nested operator, after ten reads or more.
C25_Witness ==
    /\ Done /\ entry = "part2" /\ ret.kind = "ok"
    /\ last_call.length_type_id = LENGTH_TYPE_ID_BIT_COUNT
    /\ \E i \in 1..Len(last_call.kids) : last_call.kids[i].type_id # TYPE_ID_LITERAL
    /\ Len(reads) >= 10
    /\ reads = Part1Fn(data).reads

\* part2 has returned an Eof met inside a child, as part1 does.
C25_WitnessEof ==
    /\ Done /\ entry = "part2" /\ ret = ErrEof
    /\ last_call.kids # <<>>
    /\ Part1Fn(data).res = ErrEof

---------------------------------------------------------------------------
(* Operators with more, or fewer, children than their operation takes.      *)

\* The call that returned last is a comparison that decoded more than two
\* children, and no read has failed.
ComparedMany ==
    /\ entry = "part2"
    /\ last_call.pc = "returned"
    /\ last_call.type_id \in {TYPE_ID_GT, TYPE_ID_LT, TYPE_ID_EQ}
    /\ Len(last_call.kids) > 2
    /\ last_read.res.kind = "ok"

\* C26: a comparison packet that decoded more than two children returns the
\* comparison of its first two children's values, whatever the others are,
\* reports no error, and leaves none of its children's values on the stack.
C26_FirstTwoOnly ==
    ComparedMany =>
        LET c0 == last_call.kids[1].val
            c1 == last_call.kids[2].val
        IN  /\ last_call.res.kind = "ok"
            /\ last_call.type_id = TYPE_ID_GT => last_call.res.val = (IF c0 > c1 THEN 1 ELSE 0)
            /\ last_call.type_id = TYPE_ID_LT => last_call.res.val = (IF c0 < c1 THEN 1 ELSE 0)
            /\ last_call.type_id = TYPE_ID_EQ => last_call.res.val = (IF c0 = c1 THEN 1 ELSE 0)
            /\ Len(eval_stack) = last_call.base
            /\ eval_stack = PushedBy(stack)

\* A greater-than over 3, 1 and 20: 1, though 1 > 20 does not hold.
C26_Witness ==
    /\ ComparedMany
    /\ last_call.type_id = TYPE_ID_GT
    /\ KidVals(last_call) = <<3, 1, 20>>
    /\ ret = Ok(1)
    /\ eval_stack = <<>>

\* The call that returned last is an operator that read a length field of
\* 0: total_bit_length 0 or sub_packet_count 0.
DeclaredNoChildren ==
    /\ entry \in {"part1", "part2"}
    /\ last_call.pc = "returned"
    /\ last_call.type_id # TYPE_ID_LITERAL
    /\ last_call.header_end > last_call.start
    /\ last_call.field = 0

\* C27: an operator whose length field is 0, in either form, decodes no
\* child and ends with its header; part1 returns its own version for it,
\* and part2 returns 0 for a sum and 1 for a product, without an error.
C27_NoChildren ==
    DeclaredNoChildren =>
        /\ last_call.kids = <<>>
        /\ last_call.end = last_call.header_end
        /\ last_call.length_type_id = LENGTH_TYPE_ID_BIT_COUNT =>
              last_call.end = last_call.start + 22
        /\ last_call.length_type_id = LENGTH_TYPE_ID_PACKET_COUNT =>
              last_call.end = last_call.start + 18
        /\ entry = "part1" =>
              last_call.res = Ok(BitsValue(data, last_call.start, 3))
        /\ (entry = "part2" /\ last_call.type_id = TYPE_ID_SUM) => last_call.res = Ok(0)
        /\ (entry = "part2" /\ last_call.type_id = TYPE_ID_PRODUCT) => last_call.res = Ok(1)

\* part2 has returned 1 for a product in the length-in-bits form with
\* total_bit_length 0.
C27_Witness ==
    /\ DeclaredNoChildren
    /\ Done /\ entry = "part2"
    /\ last_call.type_id = TYPE_ID_PRODUCT
    /\ last_call.length_type_id = LENGTH_TYPE_ID_BIT_COUNT
    /\ ret = Ok(1)

\* part1 has returned the version of a childless operator nested in another.
C27_WitnessVersion ==
    /\ DeclaredNoChildren
    /\ entry = "part1" /\ stack # <<>>
    /\ last_call.res = Ok(last_call.own_version)

---------------------------------------------------------------------------
(* The position: after a failed literal, and as a measure of progress.      *)

\* C28: a read_compressed_literal that fails leaves the position after the
\* last complete group it read, 5 bits on for each, not where the literal
\* began; the read_bits(5) that failed started there and did not move it.
C28_LiteralNotAtomic ==
    (last_read.op = "read_compressed_literal" /\ last_read.res.kind = "err") =>
        /\ last_read.res = ErrEof
        /\ position = last_read.position + 5 * last_read.groups
        /\ last_read.groups >= 1 => position > last_read.position
        /\ last_read.read_at = position
        /\ ReadBits(data, position, 5).res = ErrEof
        /\ ReadBits(data, position, 5).position = position

\* A direct call that failed after two complete groups.
C28_Witness ==
    /\ entry = "reader"
    /\ last_read.op = "read_compressed_literal"
    /\ last_read.res = ErrEof
    /\ last_read.groups = 2
    /\ position = last_read.position + 10

\* The packets decoded so far by a traversal that has met no failure: those
\* whose version was read and whose call is no longer in progress.
Decoded(vs, st) ==
    Len(vs) - Cardinality({ i \in 1..Len(st) : st[i].pc # "version" })

\* C29: the position never decreases; a call that returns a value has
\* advanced it by at least 11 bits for a literal, 18 for an operator in the
\* count form and 22 for one in the length-in-bits form; so the packets
\* decoded number at most the bits consumed over 11, and so at most
\* 8 * len(buffer) over 11.
C29_Progress ==
    [][ /\ position' >= position
        /\ position' <= 8 * Len(data')
        /\ (entry' \in {"part1", "part2"} /\ last_call'.pc = "returned"
              /\ last_call'.res.kind = "ok") =>
              /\ last_call'.end - last_call'.start >=
                    (IF last_call'.type_id = TYPE_ID_LITERAL THEN 11
                     ELSE IF last_call'.length_type_id = LENGTH_TYPE_ID_BIT_COUNT THEN 22
                     ELSE 18)
              /\ last_call'.end <= position'
        /\ (entry' \in {"part1", "part2"} /\ ret'.kind \notin {"err", "panic"}) =>
              /\ 11 * Decoded(versions', stack') <= position'
              /\ Decoded(versions', stack') <= (8 * Len(data')) \div 11
        /\ (entry' \in {"part1", "part2"} /\ stack' = <<>> /\ ret'.kind = "ok") =>
              Decoded(versions', stack') = Len(versions') ]_vars

\* part1 has returned a value after decoding four packets or more.
C29_Witness ==
    /\ Done /\ entry = "part1" /\ ret.kind = "ok"
    /\ Decoded(versions, stack) >= 4
    /\ 11 * Decoded(versions, stack) <= position

\* An operator in the count form has returned a value after exactly 18 bits.
C29_WitnessShortest ==
    /\ entry = "part2" /\ Returned
    /\ last_call.type_id # TYPE_ID_LITERAL
    /\ last_call.end - last_call.start = 18

\* The innermost call is at the head of one of its loops, whose condition
\* holds.
AboutToRecurse ==
    /\ stack # <<>>
    /\ \/ Top.pc = "while" /\ WhileCondition(position, Top.end_index)
       \/ Top.pc = "for" /\ ForCondition(Top.i, Top.operand_count)

\* C30: with d calls of read_packet or evaluate in progress,
\* 18 * (d - 1) <= position <= 8 * len(buffer): each call but the innermost
\* is an operator that read a header of 18 bits or more before the call it
\* made began; so d is at most 1 + (8 * len(buffer)) / 18.  Nothing else
\* limits the depth: a loop whose condition holds makes its call, however
\* many calls are in progress.
C30_DepthBound ==
    [][ /\ entry' \in {"part1", "part2"} =>
              /\ 18 * (Len(stack') - 1) <= position'
              /\ position' <= 8 * Len(data')
              /\ Len(stack') <= 1 + (8 * Len(data')) \div 18
              /\ \A i \in 2..Len(stack') :
                    /\ stack'[i - 1].type_id # TYPE_ID_LITERAL
                    /\ stack'[i].start >= stack'[i - 1].header_end
                    /\ stack'[i - 1].header_end >= stack'[i - 1].start + 18
        /\ AboutToRecurse =>
              /\ Len(stack') = Len(stack) + 1
              /\ stack'[Len(stack')].start = position ]_vars

\* Three calls in progress, the innermost begun right after two headers.
C30_Witness ==
    /\ entry = "part2"
    /\ Len(stack) = 3
    /\ stack[3].pc = "version"
    /\ position = stack[3].start
    /\ position <= 18 * Len(stack)
    /\ Len(stack) <= 1 + (8 * Len(data)) \div 18

==========================================================================
